---- MODULE Spec2Model ----
(***************************************************************************)
(* A model of src/src/main.rs: the OpenRouter chat client.                 *)
(*                                                                         *)
(*   - the text layer: String::from_utf8_lossy, str::split, str::trim,     *)
(*     strip_prefix and the JSON probe of process_sse_message, on          *)
(*     sequences of one-character strings;                                 *)
(*   - SpecStream: process_stream fed one response in arbitrary chunks;    *)
(*   - Spec: the interactive loop of main, with create_chat_completion     *)
(*     and apply_rate_limit under a discrete clock;                        *)
(*   - SpecGate: the AdmissionGate of the batch variants.                  *)
(***************************************************************************)
EXTENDS Integers, Sequences, FiniteSets, TLC

VARIABLES
    \* ---- process_stream (src/src/main.rs:147-175)
    response,       \* the frames the server wrote, and whether the last one is delimited
    rest,           \* bytes of the body not yet delivered by bytes_stream()
    buffer,         \* the local `buffer` (decoded characters)
    emitted,        \* what print! has written so far
    decoded,        \* the frames handed to process_sse_message, with their results
    spc,            \* "idle" | "reading" | "finished" | "failed"
    cut_in_char,    \* a chunk boundary has fallen inside a multi-byte character
    received,       \* the text of every chunk so far, as from_utf8_lossy decoded it
    \* ---- main, create_chat_completion, apply_rate_limit
    pc,             \* where the loop of main is
    bufs,           \* the heap: Vec<Message> buffers by id; HistoryBuf is conversation_history
    request,        \* the request of the current iteration (None outside one)
    built,          \* every request built so far: its buffer and the history at its submission
    submitted,      \* the prompts read so far, in order
    now,            \* the monotonic clock (Instant::now())
    last_request_time,
    prev_release,   \* the value last_request_time held before the latest write
    sleep_dur,      \* rate_limit - elapsed, the argument of tokio::time::sleep
    deadline,       \* the instant the sleep is due
    slept,          \* the current apply_rate_limit call has slept
    http,           \* what the network did to the POST of the current call
    result,         \* what create_chat_completion returned
    calls,          \* create_chat_completion calls started
    posts,          \* the URL of every HTTP POST initiated, in order
    replies,        \* the text process_stream printed, one entry per successful exchange
    reported,       \* how many errors main has reported
    turn,           \* how the last finished turn ended
    exit_status,    \* "running" | "ok" | "error"
    stamps,         \* how many times last_request_time has been written
    wire,           \* every HTTP request sent: its Accept header and its JSON body
    \* ---- AdmissionGate
    in_flight,
    caller          \* each caller's position: "idle" | "waiting" | "holding"

streamVars == <<response, rest, buffer, emitted, decoded, spc, cut_in_char, received>>
mainVars == <<pc, bufs, request, built, submitted, now, last_request_time, prev_release,
              sleep_dur, deadline, slept, http, result, calls, posts, replies, reported,
              turn, exit_status, stamps, wire>>
gateVars == <<in_flight, caller>>
vars == <<streamVars, mainVars, gateVars>>

None == [some |-> FALSE, val |-> <<>>]
Some(x) == [some |-> TRUE, val |-> x]

(***************************************************************************)
(* Text.  A string is a sequence of characters, a body a sequence of       *)
(* bytes.  An ASCII byte and its character are the same one-character      *)
(* string; U+00E9 is the two bytes xC3 xA9; U+FFFD is the replacement      *)
(* character from_utf8_lossy writes for a malformed sequence.              *)
(***************************************************************************)
LF == "\n"
QUOTE == "\""
REPLACEMENT == "U+FFFD"
E_ACUTE == "U+00E9"
LeadByte == "xC3"
ContByte == "xA9"

\* The concatenation of a sequence of sequences.
RECURSIVE Flatten(_)
Flatten(ss) ==
    IF ss = <<>> THEN <<>>
    ELSE IF Len(ss) = 1 THEN ss[1]
    ELSE LET half == Len(ss) \div 2 IN
         Flatten(SubSeq(ss, 1, half)) \o Flatten(SubSeq(ss, half + 1, Len(ss)))

StartsWith(s, p) == Len(s) >= Len(p) /\ SubSeq(s, 1, Len(p)) = p
Drop(s, n) == SubSeq(s, n + 1, Len(s))

\* str::as_bytes of a String: UTF-8 encoding.
utf8(s) ==
    Flatten([i \in 1..Len(s) |->
                IF s[i] = E_ACUTE THEN <<LeadByte, ContByte>> ELSE <<s[i]>>])

\* String::from_utf8_lossy(&chunk): a valid sequence decodes to its character, a
\* lead byte with no continuation byte after it and a continuation byte with no
\* lead byte before it each decode to U+FFFD.
from_utf8_lossy(bs) ==
    Flatten([i \in 1..Len(bs) |->
                IF bs[i] = LeadByte
                THEN IF i < Len(bs) /\ bs[i + 1] = ContByte
                     THEN <<E_ACUTE>> ELSE <<REPLACEMENT>>
                ELSE IF bs[i] = ContByte
                THEN IF i > 1 /\ bs[i - 1] = LeadByte THEN <<>> ELSE <<REPLACEMENT>>
                ELSE <<bs[i]>>])

\* buffer.contains("\n\n")
contains_delim(s) == \E i \in 1..(Len(s) - 1) : s[i] = LF /\ s[i + 1] = LF

\* buffer.split("\n\n").collect(): leftmost, non-overlapping matches.
RECURSIVE split_delim(_)
split_delim(s) ==
    IF ~contains_delim(s) THEN <<s>>
    ELSE LET i == CHOOSE k \in 1..(Len(s) - 1) :
                    /\ s[k] = LF /\ s[k + 1] = LF
                    /\ \A j \in 1..(k - 1) : ~(s[j] = LF /\ s[j + 1] = LF)
         IN  <<SubSeq(s, 1, i - 1)>> \o split_delim(Drop(s, i + 1))

IsWhite(c) == c \in {" ", LF, "\t", "\r"}

\* str::trim
RECURSIVE trim_start(_)
trim_start(s) == IF s # <<>> /\ IsWhite(Head(s)) THEN trim_start(Tail(s)) ELSE s
RECURSIVE trim_end(_)
trim_end(s) ==
    IF s # <<>> /\ IsWhite(s[Len(s)]) THEN trim_end(SubSeq(s, 1, Len(s) - 1)) ELSE s
trim(s) == trim_end(trim_start(s))

DataPrefix == <<"d", "a", "t", "a", ":", " ">>
DoneToken == <<"[", "D", "O", "N", "E", "]">>
\* {"choices":[{"delta":{
JsonHead == <<"{", QUOTE, "c", "h", "o", "i", "c", "e", "s", QUOTE, ":", "[", "{",
              QUOTE, "d", "e", "l", "t", "a", QUOTE, ":", "{">>
\* "content":"
ContentKey == <<QUOTE, "c", "o", "n", "t", "e", "n", "t", QUOTE, ":", QUOTE>>
\* }}]}
JsonTail == <<"}", "}", "]", "}">>

\* A character a JSON string may hold unescaped.
IsStringChar(c) == c \notin {QUOTE, "\\", LF, "\t", "\r"}

\* The length of the longest prefix of s made of unescaped string characters.
RECURSIVE StringRun(_)
StringRun(s) == IF s # <<>> /\ IsStringChar(Head(s)) THEN 1 + StringRun(Tail(s)) ELSE 0

\* serde_json::from_str::<Value>(data) followed by
\* json["choices"][0]["delta"]["content"].as_str(): Some(content) when data is a
\* JSON document (white space around it allowed) holding a string there, None when
\* it does not parse or holds no string there.
json_delta_content(data) ==
    LET t == trim(data) IN
    IF ~StartsWith(t, JsonHead \o ContentKey) THEN None
    ELSE LET r == Drop(t, Len(JsonHead) + Len(ContentKey))
             n == StringRun(r)
         IN  IF Drop(r, n) = <<QUOTE>> \o JsonTail THEN Some(SubSeq(r, 1, n)) ELSE None

\* process_sse_message parsing the whole message, the "data: " prefix included.
process_sse_message_unstripped(message) ==
    IF StartsWith(message, DataPrefix)
    THEN IF trim(Drop(message, Len(DataPrefix))) = DoneToken THEN None
         ELSE json_delta_content(message)
    ELSE None

\* fn process_sse_message(message: &str) -> Option<String>
process_sse_message(message) ==
    IF StartsWith(message, DataPrefix)
    THEN LET data == Drop(message, Len(DataPrefix)) IN
         IF trim(data) = DoneToken THEN None ELSE json_delta_content(data)
    ELSE None

\* What the print! calls of process_stream write for a run of frames.
RECURSIVE print_frames(_)
print_frames(parts) ==
    IF parts = <<>> THEN <<>>
    ELSE LET r == process_sse_message(Head(parts)) IN
         (IF r.some THEN r.val ELSE <<>>) \o print_frames(Tail(parts))

\* The frames handed to process_sse_message, each with what it returned.
log_frames(parts) ==
    [i \in 1..Len(parts) |-> [frame |-> parts[i], result |-> process_sse_message(parts[i])]]

\* A frame whose payload is neither the terminator nor a JSON document.
undecodable(message) ==
    /\ StartsWith(message, DataPrefix)
    /\ LET data == Drop(message, Len(DataPrefix)) IN
       /\ trim(data) # DoneToken
       /\ trim(data) # JsonHead \o JsonTail
       /\ ~json_delta_content(data).some

\* The first k for which stop(parts[k]) holds among the first n parts, n if none.
first_stop(parts, n, stop(_)) ==
    IF \E k \in 1..n : stop(parts[k])
    THEN CHOOSE k \in 1..n : stop(parts[k]) /\ \A j \in 1..(k - 1) : ~stop(parts[j])
    ELSE n

is_done(message) ==
    StartsWith(message, DataPrefix) /\ trim(Drop(message, Len(DataPrefix))) = DoneToken

\* A loop that gives up on the frames of a chunk at the first undecodable one.
handle_chunk_stop_at_bad(buf, chunk) ==
    LET b == buf \o from_utf8_lossy(chunk) IN
    IF contains_delim(b)
    THEN LET parts == split_delim(b) IN
         [buffer |-> parts[Len(parts)],
          frames |-> SubSeq(parts, 1, first_stop(parts, Len(parts) - 1, undecodable))]
    ELSE [buffer |-> b, frames |-> <<>>]

\* A loop that breaks out of the frames of a chunk at the terminator.
handle_chunk_stop_at_done(buf, chunk) ==
    LET b == buf \o from_utf8_lossy(chunk) IN
    IF contains_delim(b)
    THEN LET parts == split_delim(b) IN
         [buffer |-> parts[Len(parts)],
          frames |-> SubSeq(parts, 1, first_stop(parts, Len(parts) - 1, is_done))]
    ELSE [buffer |-> b, frames |-> <<>>]

\* A loop that clears the buffer once it has taken the complete frames out.
handle_chunk_clear_buffer(buf, chunk) ==
    LET b == buf \o from_utf8_lossy(chunk) IN
    IF contains_delim(b)
    THEN LET parts == split_delim(b) IN
         [buffer |-> <<>>, frames |-> SubSeq(parts, 1, Len(parts) - 1)]
    ELSE [buffer |-> b, frames |-> <<>>]

\* The body of the while loop of process_stream for one chunk: the new buffer and
\* the complete frames taken out of it, in order.
handle_chunk(buf, chunk) ==
    LET b == buf \o from_utf8_lossy(chunk) IN
    IF contains_delim(b)
    THEN LET parts == split_delim(b) IN
         [buffer |-> parts[Len(parts)], frames |-> SubSeq(parts, 1, Len(parts) - 1)]
    ELSE [buffer |-> b, frames |-> <<>>]

\* A function that returns at end-of-stream without looking at the buffer.
final_frames_dropped(buf) == <<>>

\* The frames decoded after the loop: the remaining buffer when it is not empty.
final_frames(buf) == IF buf # <<>> THEN <<buf>> ELSE <<>>

\* process_stream on a body that bytes_stream() delivers as one chunk: its output.
process_stream_whole(body) ==
    LET h == handle_chunk(<<>>, body) IN
    print_frames(h.frames) \o print_frames(final_frames(h.buffer)) \o <<LF>>

(***************************************************************************)
(* The streamed bodies the server may write (section 6 of the design: each  *)
(* frame is "data: " + payload, frames are followed by "\n\n").            *)
(***************************************************************************)
MaxFrames == 2
MaxChunk == 2

StreamContents == {<<"h", "i">>, <<E_ACUTE>>}
BadPayload == <<"{", "o", "o", "p", "s">>

FrameKinds ==
    [kind : {"content"}, text : StreamContents]
        \cup [kind : {"empty", "done", "bad"}, text : {<<>>}]

Payload(f) ==
    CASE f.kind = "content" -> JsonHead \o ContentKey \o f.text \o <<QUOTE>> \o JsonTail
      [] f.kind = "empty" -> JsonHead \o JsonTail
      [] f.kind = "done" -> DoneToken
      [] OTHER -> BadPayload

FrameText(f) == DataPrefix \o Payload(f)

RECURSIVE JoinFrames(_, _)
JoinFrames(fs, closed) ==
    IF fs = <<>> THEN <<>>
    ELSE FrameText(Head(fs))
            \o (IF Len(fs) > 1 \/ closed THEN <<LF, LF>> ELSE <<>>)
            \o JoinFrames(Tail(fs), closed)

Body(r) == utf8(JoinFrames(r.frames, r.closed))

Responses ==
    [frames : UNION {[1..n -> FrameKinds] : n \in 1..MaxFrames}, closed : BOOLEAN]

\* A well-formed streamed response: content and keep-alive frames, each followed
\* by the delimiter, then the terminator frame.
WellFormed(r) ==
    /\ r.closed
    /\ \A i \in DOMAIN r.frames : r.frames[i].kind # "bad"
    /\ r.frames[Len(r.frames)].kind = "done"

NoResponse == [frames |-> <<>>, closed |-> TRUE]

StreamIdle ==
    /\ response = NoResponse /\ rest = <<>> /\ buffer = <<>> /\ emitted = <<>>
    /\ decoded = <<>> /\ spc = "idle" /\ cut_in_char = FALSE /\ received = <<>>

(***************************************************************************)
(* process_stream, one step per await of stream.next().                    *)
(***************************************************************************)
StreamInit ==
    /\ response \in Responses
    /\ rest = Body(response)
    /\ buffer = <<>> /\ emitted = <<>> /\ decoded = <<>>
    /\ spc = "reading" /\ cut_in_char = FALSE /\ received = <<>>

\* stream.next() yields Some(Ok(chunk)): lines 152-164.
RecvChunk ==
    /\ spc = "reading" /\ rest # <<>>
    /\ \E n \in (1..MaxChunk) \cup {Len(rest)} :
        /\ n <= Len(rest)
        /\ LET chunk == SubSeq(rest, 1, n)
               h == handle_chunk(buffer, chunk)
           IN  /\ buffer' = h.buffer
               /\ emitted' = emitted \o print_frames(h.frames)
               /\ decoded' = decoded \o log_frames(h.frames)
               /\ rest' = Drop(rest, n)
               /\ received' = received \o from_utf8_lossy(chunk)
               /\ cut_in_char' = (\/ cut_in_char
                                  \/ /\ chunk[n] = LeadByte
                                     /\ n < Len(rest)
                                     /\ rest[n + 1] = ContByte)
    /\ UNCHANGED <<response, spc>>
    /\ UNCHANGED <<mainVars, gateVars>>

\* stream.next() yields None: lines 167-174.
StreamEnd ==
    /\ spc = "reading" /\ rest = <<>>
    /\ emitted' = emitted \o print_frames(final_frames(buffer)) \o <<LF>>
    /\ decoded' = decoded \o log_frames(final_frames(buffer))
    /\ spc' = "finished"
    /\ UNCHANGED <<response, rest, buffer, cut_in_char, received>>
    /\ UNCHANGED <<mainVars, gateVars>>

\* stream.next() yields Some(Err(e)): `chunk?` at line 152 returns the error.
ChunkError ==
    /\ spc = "reading"
    /\ spc' = "failed"
    /\ UNCHANGED <<response, rest, buffer, emitted, decoded, cut_in_char, received>>
    /\ UNCHANGED <<mainVars, gateVars>>

(***************************************************************************)
(* main: the interactive loop, create_chat_completion and apply_rate_limit.*)
(***************************************************************************)
MaxTurns == 2
MaxTime == 4
\* Duration::from_millis(config.app_rate_limit_ms), in clock ticks.
RateLimit == 2

HistoryBuf == 0
\* A request built with `stream: false`.
StreamFlagOff == FALSE

\* `stream: true` in the request main builds.
StreamFlag == TRUE
ModelName == "anthropic/claude-3.5-sonnet"

Hello == <<"H", "e", "l", "l", "o">>
HowAreYou == <<"H", "o", "w", " ", "a", "r", "e", " ", "y", "o", "u", "?">>
ExitWord == <<"e", "x", "i", "t">>
Prompts == {Hello, HowAreYou}
\* What rl.readline returns: Ok(line), or Err (end of input, interrupt).
ReadlineResults ==
    [ok : {TRUE}, line : Prompts \cup {ExitWord, <<" ", "E", "X", "I", "T", LF>>}]
        \cup {[ok |-> FALSE, line |-> <<>>]}

lower(c) == CASE c = "E" -> "e" [] c = "X" -> "x" [] c = "I" -> "i" [] c = "T" -> "t"
              [] c = "H" -> "h" [] OTHER -> c
to_lowercase(s) == [i \in 1..Len(s) |-> lower(s[i])]

Message(role, content) == [role |-> role, content |-> content]

conversation_history == bufs[HistoryBuf]

\* Vec::push at the front instead of the back.
push_front(v, m) == <<m>> \o v

\* A push that takes the place of an unanswered user message instead of
\* following it.
push_over_unanswered(v, m) ==
    IF Len(v) > 0 /\ v[Len(v)].role = "user" /\ m.role = "user"
    THEN [v EXCEPT ![Len(v)] = m]
    ELSE Append(v, m)

\* Vec::push
push(v, m) == Append(v, m)

\* A request that borrows the history instead of copying it.
clone_alias(heap, src, fresh) == [heap |-> heap, ptr |-> src]

\* conversation_history.clone(): a new buffer holding a copy of every message.
clone(heap, src, fresh) ==
    [heap |-> [i \in DOMAIN heap \cup {fresh} |-> IF i = fresh THEN heap[src] ELSE heap[i]],
     ptr |-> fresh]

NoInstant == [some |-> FALSE, val |-> 0]
NoRequest == [some |-> FALSE, model |-> "", messages |-> HistoryBuf, stream |-> FALSE]

\* StatusCode::is_success
is_success(status) == 200 <= status /\ status <= 299

\* The network's answer to one POST.
NoHttp ==
    [kind |-> "none", status |-> 0, text |-> "", readable |-> TRUE, stream |-> NoResponse,
     shape |-> ""]
ErrorTexts == {"rate limited", ""}
Statuses == {200, 429, 500}
\* The streamed bodies of the interactive session.
MainStreams ==
    {[frames |-> <<[kind |-> "content", text |-> <<"h", "i">>],
                   [kind |-> "done", text |-> <<>>]>>, closed |-> TRUE]}
\* A body that is a chat response with a choice, one with none, and one that is
\* not a chat response.
JsonShapes == {"chat", "no_choices", "malformed"}
TestContent == <<"T", "e", "s", "t">>

\* What may come back for one POST: no response at all, a rejection whose body
\* can or cannot be read to its end, or a success with the body the request's
\* stream flag asks for.
HttpOutcomes(stream) ==
    {[kind |-> "send_failed", status |-> 0, text |-> "", readable |-> TRUE,
      stream |-> NoResponse, shape |-> ""]}
    \cup [kind : {"response"}, status : {s \in Statuses : ~is_success(s)}, text : ErrorTexts,
          readable : BOOLEAN, stream : {NoResponse}, shape : {""}]
    \cup (IF stream
          THEN [kind : {"response"}, status : {s \in Statuses : is_success(s)}, text : {""},
                readable : {TRUE}, stream : MainStreams, shape : {"sse"}]
          ELSE [kind : {"response"}, status : {s \in Statuses : is_success(s)}, text : {""},
                readable : {TRUE}, stream : {NoResponse}, shape : JsonShapes])

NoError == [msg |-> "", detail |-> <<>>]
Ok(r) == [ok |-> TRUE, response |-> r, err |-> NoError]
Err(e) == [ok |-> FALSE, response |-> NoHttp, err |-> e]
NoResult == [ok |-> FALSE, response |-> NoHttp, err |-> NoError]

\* .context("Failed to send request to OpenRouter")?
send_error == [msg |-> "Failed to send request to OpenRouter", detail |-> <<>>]
\* .context("Failed to get error response body")?
body_error == [msg |-> "Failed to get error response body", detail |-> <<>>]

\* An API error that leaves the body out.
api_error_status_only(status, body) ==
    [msg |-> "OpenRouter API error", detail |-> <<status>>]

\* anyhow::bail!("OpenRouter API error: Status {}, Body: {}", status, error_body)
api_error(status, body) == [msg |-> "OpenRouter API error", detail |-> <<status, body>>]

\* response.json() failing: the error `?` returns from main at line 257.
decode_error == [msg |-> "error decoding response body", detail |-> <<>>]

\* base_url as OpenAI::new sets it.
base_url == "https://openrouter.ai/api/v1"
\* format!("{}/chat/completions", self.base_url)
url == <<base_url, "/chat/completions">>

\* A second POST after one that failed in the network.
posts_after_send_retry(sent, outcome) ==
    sent \o (IF outcome.kind = "send_failed" THEN <<url, url>> ELSE <<url>>)

\* self.client.post(&url)...send(): the POSTs initiated once it returns.
posts_after_send(sent, outcome) == Append(sent, url)

\* Sleeping for the time already elapsed.
remaining_wait_elapsed(elapsed) == elapsed

\* self.rate_limit - elapsed
remaining_wait(elapsed) == RateLimit - elapsed

\* A client whose last_request_time starts at the time of its construction.
initial_last_request_time_now == [some |-> TRUE, val |-> 0]

\* OpenAI::new: last_request_time: None
initial_last_request_time == NoInstant

\* A stamp that leaves last_request_time unset.
stamp_none(t) == NoInstant

\* Some(Instant::now())
stamp(t) == [some |-> TRUE, val |-> t]

\* A request handed to a background task: the loop reads the next line at once.
after_submit_spawned == "readline"

\* openai.create_chat_completion(&request).await: main goes on inside the call.
after_submit == "rl_elapsed"

\* The request as create_chat_completion sends it (lines 93-99): the Accept
\* header and .json(request), the request serialised with its messages.
http_request(heap, req) ==
    [accept |-> "application/json",
     body |-> [model |-> req.model, messages |-> heap[req.messages], stream |-> req.stream]]

MainInit ==
    /\ pc = "readline"
    /\ bufs = [i \in {HistoryBuf} |-> <<>>]
    /\ request = NoRequest
    /\ built = <<>>
    /\ submitted = <<>>
    /\ now = 0
    /\ last_request_time = initial_last_request_time
    /\ prev_release = NoInstant
    /\ sleep_dur = 0 /\ deadline = 0 /\ slept = FALSE
    /\ http = NoHttp
    /\ result = NoResult
    /\ calls = 0 /\ posts = <<>>
    /\ replies = <<>>
    /\ reported = 0
    /\ turn = "none"
    /\ exit_status = "running"
    /\ stamps = 0
    /\ wire = <<>>

EndTurn(outcome) ==
    /\ turn' = outcome
    /\ request' = NoRequest
    /\ pc' = "readline"

\* The Err(e) arm of the match in main (lines 279-283): report and loop.
ReportAndContinue(outcome) ==
    /\ reported' = reported + 1
    /\ EndTurn(outcome)

\* rl.readline("You: ") returns; lines 223-247 up to the call of
\* create_chat_completion.
ReadLine ==
    /\ pc = "readline"
    /\ \E r \in ReadlineResults :
        IF ~r.ok \/ to_lowercase(trim(r.line)) = ExitWord
        THEN /\ pc' = "exited"
             /\ exit_status' = "ok"
             /\ UNCHANGED <<bufs, request, built, submitted, calls, slept, http, result>>
        ELSE /\ Len(submitted) < MaxTurns
             /\ LET h == push(conversation_history, Message("user", r.line))
                    c == clone([bufs EXCEPT ![HistoryBuf] = h], HistoryBuf, Len(built) + 1)
                IN  /\ bufs' = c.heap
                    /\ request' = [some |-> TRUE, model |-> ModelName,
                                   messages |-> c.ptr, stream |-> StreamFlag]
                    /\ built' = Append(built, [ptr |-> c.ptr, snapshot |-> h])
             /\ submitted' = Append(submitted, r.line)
             /\ calls' = calls + 1
             /\ slept' = FALSE
             /\ http' = NoHttp
             /\ result' = NoResult
             /\ pc' = after_submit
             /\ UNCHANGED exit_status
    /\ UNCHANGED <<now, last_request_time, prev_release, sleep_dur, deadline, posts,
                   replies, reported, turn>>
    /\ UNCHANGED <<stamps, wire>>
    /\ UNCHANGED <<streamVars, gateVars>>

\* apply_rate_limit, lines 114-116: read the clock, decide whether to sleep.
RateLimitElapsed ==
    /\ pc = "rl_elapsed"
    /\ IF last_request_time.some /\ now - last_request_time.val < RateLimit
       THEN /\ sleep_dur' = remaining_wait(now - last_request_time.val)
            /\ pc' = "rl_sleep"
       ELSE /\ sleep_dur' = 0
            /\ pc' = "rl_stamp"
    /\ UNCHANGED <<bufs, request, built, submitted, now, last_request_time, prev_release,
                   deadline, slept, http, result, calls, posts, replies, reported, turn,
                   exit_status>>
    /\ UNCHANGED <<stamps, wire>>
    /\ UNCHANGED <<streamVars, gateVars>>

\* line 117: tokio::time::sleep(d) is due d after the instant it is called.
RateLimitSleep ==
    /\ pc = "rl_sleep"
    /\ deadline' = now + sleep_dur
    /\ pc' = "rl_wait"
    /\ UNCHANGED <<bufs, request, built, submitted, now, last_request_time, prev_release,
                   sleep_dur, slept, http, result, calls, posts, replies, reported, turn,
                   exit_status>>
    /\ UNCHANGED <<stamps, wire>>
    /\ UNCHANGED <<streamVars, gateVars>>

\* The sleep completes, at its deadline or later.
RateLimitWake ==
    /\ pc = "rl_wait"
    /\ now >= deadline
    /\ slept' = TRUE
    /\ pc' = "rl_stamp"
    /\ UNCHANGED <<bufs, request, built, submitted, now, last_request_time, prev_release,
                   sleep_dur, deadline, http, result, calls, posts, replies, reported, turn,
                   exit_status>>
    /\ UNCHANGED <<stamps, wire>>
    /\ UNCHANGED <<streamVars, gateVars>>

\* line 120: self.last_request_time = Some(Instant::now())
RateLimitStamp ==
    /\ pc = "rl_stamp"
    /\ prev_release' = last_request_time
    /\ last_request_time' = stamp(now)
    /\ stamps' = stamps + 1
    /\ pc' = "send"
    /\ UNCHANGED <<bufs, request, built, submitted, now, sleep_dur, deadline, slept, http,
                   result, calls, posts, replies, reported, turn, exit_status>>
    /\ UNCHANGED <<wire>>
    /\ UNCHANGED <<streamVars, gateVars>>

\* create_chat_completion, lines 91-105 and 110: the POST and its status.
Send ==
    /\ pc = "send"
    /\ \E o \in HttpOutcomes(request.stream) :
        /\ http' = o
        /\ posts' = posts_after_send(posts, o)
        /\ wire' = Append(wire, http_request(bufs, request))
        /\ IF o.kind = "send_failed"
           THEN /\ result' = Err(send_error)
                /\ ReportAndContinue("send_error")
           ELSE IF is_success(o.status)
           THEN /\ result' = Ok(o)
                /\ pc' = "consume"
                /\ UNCHANGED <<request, reported, turn>>
           ELSE /\ pc' = "error_body"
                /\ UNCHANGED <<result, request, reported, turn>>
    /\ UNCHANGED <<bufs, built, submitted, now, last_request_time, prev_release, sleep_dur,
                   deadline, slept, calls, replies, exit_status>>
    /\ UNCHANGED <<stamps>>
    /\ UNCHANGED <<streamVars, gateVars>>

\* lines 106-107: response.text() of a rejected request, then the error.
ErrorBody ==
    /\ pc = "error_body"
    /\ IF http.readable
       THEN /\ result' = Err(api_error(http.status, http.text))
            /\ ReportAndContinue("api_error")
       ELSE /\ result' = Err(body_error)
            /\ ReportAndContinue("body_error")
    /\ UNCHANGED <<bufs, built, submitted, now, last_request_time, prev_release, sleep_dur,
                   deadline, slept, http, calls, posts, replies, exit_status>>
    /\ UNCHANGED <<stamps, wire>>
    /\ UNCHANGED <<streamVars, gateVars>>

\* The Ok(response) arm, lines 248-277: process_stream when request.stream,
\* response.json() otherwise.
Consume ==
    /\ pc = "consume"
    /\ IF request.stream
       THEN \E fail \in BOOLEAN :
              /\ IF fail
                 THEN /\ ReportAndContinue("stream_error")
                      /\ UNCHANGED replies
                 ELSE /\ replies' = Append(replies, process_stream_whole(Body(http.stream)))
                      /\ EndTurn("ok")
                      /\ UNCHANGED reported
              /\ UNCHANGED <<bufs, exit_status>>
       ELSE IF http.shape = "malformed"
       THEN /\ pc' = "exited"
            /\ exit_status' = "error"
            /\ turn' = "decode_error"
            /\ UNCHANGED <<bufs, request, replies, reported>>
       ELSE /\ IF http.shape = "chat"
               THEN /\ bufs' = [bufs EXCEPT ![HistoryBuf] =
                                    push(@, Message("assistant", TestContent))]
                    /\ replies' = Append(replies, TestContent \o <<LF>>)
               ELSE UNCHANGED <<bufs, replies>>
            /\ EndTurn("ok")
            /\ UNCHANGED <<reported, exit_status>>
    /\ UNCHANGED <<built, submitted, now, last_request_time, prev_release, sleep_dur,
                   deadline, slept, http, result, calls, posts>>
    /\ UNCHANGED <<stamps, wire>>
    /\ UNCHANGED <<streamVars, gateVars>>

\* Time passes.
Tick ==
    /\ pc # "exited"
    /\ now < MaxTime
    /\ now' = now + 1
    /\ UNCHANGED <<pc, bufs, request, built, submitted, last_request_time, prev_release,
                   sleep_dur, deadline, slept, http, result, calls, posts, replies,
                   reported, turn, exit_status>>
    /\ UNCHANGED <<stamps, wire>>
    /\ UNCHANGED <<streamVars, gateVars>>

(***************************************************************************)
(* AdmissionGate (section 4.2 of the design): acquire and release of the   *)
(* batch variants, one task per caller.                                    *)
(***************************************************************************)
NumCallers == 4
Capacity == 2
Callers == 1..NumCallers

GateInit ==
    /\ in_flight = 0
    /\ caller = [c \in Callers |-> "idle"]

\* Admitting a caller when in_flight has already reached the capacity.
can_acquire_off_by_one(n) == n <= Capacity

\* in_flight < capacity
can_acquire(n) == n < Capacity

\* A task calls acquire() and suspends.
StartAcquire(c) ==
    /\ caller[c] = "idle"
    /\ caller' = [caller EXCEPT ![c] = "waiting"]
    /\ UNCHANGED in_flight
    /\ UNCHANGED <<mainVars, streamVars>>

\* acquire() returns: the check and the increment, in one step.
Acquire(c) ==
    /\ caller[c] = "waiting"
    /\ can_acquire(in_flight)
    /\ in_flight' = in_flight + 1
    /\ caller' = [caller EXCEPT ![c] = "holding"]
    /\ UNCHANGED <<mainVars, streamVars>>

\* release(), on every exit path of the work done while holding.
Release(c) ==
    /\ caller[c] = "holding"
    /\ in_flight' = in_flight - 1
    /\ caller' = [caller EXCEPT ![c] = "done"]
    /\ UNCHANGED <<mainVars, streamVars>>

(***************************************************************************)
(* The specifications.                                                     *)
(***************************************************************************)
Init == MainInit /\ StreamIdle /\ GateInit

Next ==
    \/ ReadLine
    \/ RateLimitElapsed
    \/ RateLimitSleep
    \/ RateLimitWake
    \/ RateLimitStamp
    \/ Send
    \/ ErrorBody
    \/ Consume
    \/ Tick

Spec == Init /\ [][Next]_vars

InitStream == StreamInit /\ MainInit /\ GateInit

NextStream ==
    \/ RecvChunk
    \/ StreamEnd
    \/ ChunkError

SpecStream == InitStream /\ [][NextStream]_vars

InitGate == GateInit /\ MainInit /\ StreamIdle

NextGate ==
    \E c \in Callers :
        \/ StartAcquire(c)
        \/ Acquire(c)
        \/ Release(c)

SpecGate == InitGate /\ [][NextGate]_vars

(***************************************************************************)
(* Properties of process_stream and process_sse_message, under SpecStream. *)
(***************************************************************************)

\* C1: for every well-formed streamed response and every way of cutting its bytes
\* into chunks, cuts inside a multi-byte character included, the text
\* process_stream emits equals the text it emits when the whole response arrives
\* as one chunk.
C1_ChunkingPreservesText ==
    (spc = "finished" /\ WellFormed(response))
        => emitted = process_stream_whole(Body(response))

ContentFrame(c) == FrameText([kind |-> "content", text |-> c])
EmptyDeltaFrame == FrameText([kind |-> "empty", text |-> <<>>])
DoneFrame == FrameText([kind |-> "done", text |-> <<>>])

\* C9: process_sse_message returns an Option for every frame it is handed (it
\* never fails): None for `data: [DONE]`, Some(s) for a `data: <json>` frame whose
\* choices[0].delta.content is the string s, None for a `data: <json>` frame
\* without that field.
C9_FrameClassification ==
    \A i \in DOMAIN decoded :
        LET d == decoded[i] IN
        /\ d.result.some \in BOOLEAN
        /\ d.frame = DoneFrame => d.result = None
        /\ \A c \in StreamContents : d.frame = ContentFrame(c) => d.result = Some(c)
        /\ d.frame = EmptyDeltaFrame => d.result = None

\* A content frame, a keep-alive frame or the terminator has been decoded after
\* another frame of the three kinds.
C9_Witness ==
    /\ Len(decoded) = 2
    /\ decoded[1].frame \in {ContentFrame(c) : c \in StreamContents}
    /\ decoded[1].result.some
    /\ decoded[2].frame \in {DoneFrame, EmptyDeltaFrame}

(***************************************************************************)
(* Properties of the interactive session, under Spec.                      *)
(***************************************************************************)
InCall == pc \in {"rl_elapsed", "rl_sleep", "rl_wait", "rl_stamp", "send", "error_body"}
Rejected == http.kind = "response" /\ ~is_success(http.status)

\* C2: the release time of an apply_rate_limit call is the value it writes to
\* last_request_time; any two consecutive releases on the one client are at least
\* rate_limit apart.
C2_ReleaseSpacing ==
    (prev_release.some /\ last_request_time.some)
        => last_request_time.val - prev_release.val >= RateLimit

\* A second call has been released after sleeping.
C2_Witness == prev_release.some /\ slept /\ pc = "send"

\* C3: a response whose status is not 2xx makes create_chat_completion return an
\* error that carries the status code and the full body text, and that is not a
\* decoding error.
C3_RejectionCarriesStatusAndBody ==
    (Rejected /\ ~InCall)
        => /\ ~result.ok
           /\ result.err.detail = <<http.status, http.text>>
           /\ result.err # decode_error

\* C3 as amended: a response whose status is not 2xx makes create_chat_completion
\* return an error, never Ok and never a decoding error; the error carries the
\* status code and the full body text when the body can be read, and is the
\* failure to read the body, with neither, when it cannot.
C3_RejectionIsAnError ==
    (Rejected /\ ~InCall)
        => /\ ~result.ok
           /\ result.err # decode_error
           /\ IF http.readable
              THEN result.err.detail = <<http.status, http.text>>
              ELSE result.err = body_error

\* A 429 with the body "rate limited" has been turned into an error.
C3_Witness ==
    /\ Rejected /\ ~InCall /\ http.readable
    /\ http.status = 429 /\ http.text = "rate limited"
    /\ ~result.ok

\* C4: every call of create_chat_completion initiates exactly one POST, to
\* <base_url>/chat/completions, whatever its outcome, and a 2xx status makes it
\* return Ok with that response.
C4_OnePostPerCall ==
    /\ Len(posts) = (IF pc \in {"rl_elapsed", "rl_sleep", "rl_wait", "rl_stamp", "send"}
                     THEN calls - 1 ELSE calls)
    /\ \A i \in DOMAIN posts : posts[i] = <<base_url, "/chat/completions">>
    /\ (http.kind = "response" /\ is_success(http.status)) => result = Ok(http)
    /\ pc = "consume" => (http.kind = "response" /\ is_success(http.status))

\* A call that succeeded and a call that failed in the network: two POSTs.
C4_Witness ==
    /\ calls = 2 /\ Len(posts) = 2
    /\ http.kind = "send_failed"
    /\ Len(replies) = 1

\* The text of the assistant's message: what process_stream printed, without the
\* line break it ends with.
AssistantText(printed) == SubSeq(printed, 1, Len(printed) - 1)

\* C5: after the two successful prompts "Hello" and "How are you?" the history is
\* [user:Hello, assistant:r1, user:How are you?, assistant:r2].
C5_TwoExchangesHistory ==
    (pc = "readline" /\ submitted = <<Hello, HowAreYou>> /\ Len(replies) = 2)
        => conversation_history =
            <<Message("user", Hello), Message("assistant", AssistantText(replies[1])),
              Message("user", HowAreYou), Message("assistant", AssistantText(replies[2]))>>

\* C6: the messages of every request built so far are what the history was when
\* the request was built, whatever has been appended to the history since.
C6_SnapshotIsolation ==
    \A i \in DOMAIN built : bufs[built[i].ptr] = built[i].snapshot

\* The history has grown since a request was built.
C6_Witness ==
    \E i \in DOMAIN built : Len(conversation_history) > Len(built[i].snapshot)

\* C7: a turn that ends, ends with the loop back at readline and the process
\* running, and a turn that failed (in the send, in the rejection, in the drain of
\* the stream) has been reported.
C7_FailedTurnContinues ==
    [][(pc \in {"send", "error_body", "consume"}
            /\ pc' \notin {"send", "error_body", "consume"})
        => /\ pc' = "readline"
           /\ exit_status' = "running"
           /\ turn' # "ok" => reported' = reported + 1]_vars

\* The next prompt has been read after a turn whose stream drain failed.
C7_Witness == turn = "stream_error" /\ reported >= 1 /\ pc = "rl_elapsed"

IsPrefix(s, t) == Len(s) <= Len(t) /\ SubSeq(t, 1, Len(s)) = s
RoleIsUser(m) == m.role = "user"
UserContents(h) ==
    LET us == SelectSeq(h, RoleIsUser) IN [i \in 1..Len(us) |-> us[i].content]

\* C10: every step leaves the old history a prefix of the new one, and the user
\* messages of the history are the prompts submitted, in their order.
C10_HistoryAppendOnly ==
    [][/\ IsPrefix(conversation_history, conversation_history')
       /\ UserContents(conversation_history') = submitted']_vars

\* Two different prompts have been appended.
C10_Witness ==
    /\ Len(conversation_history) = 2
    /\ conversation_history[1] # conversation_history[2]

(***************************************************************************)
(* Properties of the AdmissionGate, under SpecGate.                        *)
(***************************************************************************)
Holders == {c \in Callers : caller[c] = "holding"}

\* C8: with more callers than capacity, in_flight is the number of holders and
\* lies between 0 and the capacity, and no acquire can complete while in_flight
\* is at the capacity.
C8_GateBound ==
    /\ in_flight = Cardinality(Holders)
    /\ 0 <= in_flight /\ in_flight <= Capacity
    /\ in_flight = Capacity => \A c \in Callers : ~ENABLED Acquire(c)

\* The gate is full and a caller is blocked in acquire.
C8_Witness ==
    /\ NumCallers > Capacity
    /\ in_flight = Capacity
    /\ \E c \in Callers : caller[c] = "waiting"

(***************************************************************************)
(* The rate limiter inside create_chat_completion, under Spec.             *)
(***************************************************************************)
SendFailures == {"send_error", "api_error", "body_error"}

\* C11: the write of last_request_time of a call comes before its HTTP exchange,
\* so a call has consumed its turn whatever the exchange does, and the call
\* after one that ended in a network error or a rejection is released at least
\* rate_limit after it.
C11_TurnConsumedBeforeExchange ==
    /\ Len(posts) <= stamps
    /\ pc \in {"send", "error_body", "consume"}
            => (stamps = calls /\ last_request_time.some /\ last_request_time.val <= now)
    /\ (pc = "readline" /\ turn \in SendFailures)
            => (stamps = calls /\ last_request_time.some)
    /\ (pc = "send" /\ turn \in SendFailures)
            => /\ prev_release.some
               /\ last_request_time.val - prev_release.val >= RateLimit

\* The call after a rejected one has slept and is about to send.
C11_Witness == pc = "send" /\ turn = "api_error" /\ slept /\ calls = 2

\* C12: a request is built only when no request is in flight: main is at
\* readline with no request of its own, and every call made so far has ended,
\* in an error that was reported or in a response that was consumed.
C12_OneRequestInFlight ==
    [][built' # built
        => /\ pc = "readline"
           /\ request = NoRequest
           /\ Len(posts) = calls
           /\ calls = reported + Len(replies)]_vars

\* A second request has been built.
C12_Witness == Len(built) = 2 /\ request.some

\* C13: the first apply_rate_limit call on a client does not sleep, and the step
\* that releases a call, slept or not, sets last_request_time to the time of
\* that step.
C13_FirstCallAndStamp ==
    [][/\ calls' = 1 => (pc' \notin {"rl_sleep", "rl_wait"} /\ ~slept')
       /\ (pc = "rl_stamp" /\ pc' # "rl_stamp")
            => (pc' = "send" /\ last_request_time' = [some |-> TRUE, val |-> now'])]_vars

\* A first call released without sleeping and a later one released after a sleep.
C13_Witness == stamps = 2 /\ slept /\ last_request_time.val = now /\ now > 0

(***************************************************************************)
(* The drain of a stream with unusual frames, under SpecStream.            *)
(***************************************************************************)
BadFrame == FrameText([kind |-> "bad", text |-> <<>>])
Frames(log) == [i \in 1..Len(log) |-> log[i].frame]
\* The text the results of a run of decoded frames amount to.
Printed(log) ==
    Flatten([i \in 1..Len(log) |-> IF log[i].result.some THEN log[i].result.val ELSE <<>>])

\* C14: a frame whose payload is not JSON decodes to nothing and stops nothing:
\* the drain goes on to the end of the stream, every frame of the response is
\* decoded, a content frame after the bad one yields its text, and what has been
\* emitted is the text of the decoded frames.
C14_BadFrameIsNoOp ==
    /\ \A i \in DOMAIN decoded : decoded[i].frame = BadFrame => decoded[i].result = None
    /\ \A i, j \in DOMAIN decoded : \A c \in StreamContents :
            (i < j /\ decoded[i].frame = BadFrame /\ decoded[j].frame = ContentFrame(c))
                => decoded[j].result = Some(c)
    /\ (spc = "reading" /\ rest # <<>>) => ENABLED RecvChunk
    /\ spc \in {"reading", "failed"} => emitted = Printed(decoded)
    /\ spc = "finished"
            => /\ Len(decoded) = Len(response.frames)
               /\ emitted = Printed(decoded) \o <<LF>>

\* A stream has been drained whose first frame is not JSON and whose second
\* frame gave text.
C14_Witness ==
    /\ spc = "finished" /\ Len(decoded) = 2
    /\ decoded[1].frame = BadFrame
    /\ decoded[2].result.some /\ emitted = decoded[2].result.val \o <<LF>>

\* C15: at end-of-stream a non-empty buffer is decoded as one last frame and its
\* text, if it has any, is emitted; an empty buffer, or one that decodes to
\* nothing, ends the drain all the same. A response whose last frame has no
\* delimiter after it ends with that frame in the buffer.
C15_FinalBufferDecoded ==
    [][(spc = "reading" /\ spc' = "finished")
        => /\ IF buffer # <<>>
              THEN LET r == process_sse_message(buffer) IN
                   /\ decoded' = Append(decoded, [frame |-> buffer, result |-> r])
                   /\ emitted' = emitted \o (IF r.some THEN r.val ELSE <<>>) \o <<LF>>
              ELSE decoded' = decoded /\ emitted' = emitted \o <<LF>>
           /\ ~response.closed
                => (buffer # <<>> /\ Len(decoded') = Len(response.frames))]_vars

\* A stream has ended on a content frame with no delimiter after it, and the
\* text of that frame is the last thing emitted before the line break.
C15_Witness ==
    /\ spc = "finished" /\ ~response.closed /\ Len(decoded) = 2
    /\ decoded[2].frame = buffer
    /\ decoded[2].result = Some(<<"h", "i">>)
    /\ decoded[1].result = None
    /\ emitted = <<"h", "i", LF>>

\* C19: the terminator decodes to nothing and stops nothing: chunks are read as
\* long as the stream has any, every frame of the response is decoded by the end
\* of the stream, and a content frame after the terminator yields its text, which
\* is emitted with that of the other frames.
C19_DoneDoesNotStop ==
    /\ \A i \in DOMAIN decoded : decoded[i].frame = DoneFrame => decoded[i].result = None
    /\ \A i, j \in DOMAIN decoded : \A c \in StreamContents :
            (i < j /\ decoded[i].frame = DoneFrame /\ decoded[j].frame = ContentFrame(c))
                => decoded[j].result = Some(c)
    /\ (spc = "reading" /\ rest # <<>> /\ \E i \in DOMAIN decoded : decoded[i].frame = DoneFrame)
            => ENABLED RecvChunk
    /\ spc = "finished"
            => /\ rest = <<>>
               /\ Len(decoded) = Len(response.frames)
               /\ emitted = Printed(decoded) \o <<LF>>

\* A stream has been drained whose first frame is the terminator and whose
\* second frame gave text.
C19_Witness ==
    /\ spc = "finished" /\ Len(decoded) = 2
    /\ decoded[1].frame = DoneFrame
    /\ decoded[2].result.some /\ emitted = decoded[2].result.val \o <<LF>>

\* The frames of a log, each followed by the delimiter.
Delimited(log) == Flatten([i \in 1..Len(log) |-> log[i].frame \o <<LF, LF>>])

\* C20: after every chunk the buffer holds no delimiter; the frames decoded so
\* far, in order, followed by the buffer, are the pieces the delimiter cuts the
\* text received so far into, so every complete frame has been decoded once and
\* no character has been dropped or taken twice.
C20_BufferAndFrames ==
    spc \in {"reading", "failed"}
        => /\ ~contains_delim(buffer)
           /\ Frames(decoded) \o <<buffer>> = split_delim(received)
           /\ Delimited(decoded) \o buffer = received
           /\ ~cut_in_char
                => received = from_utf8_lossy(
                                SubSeq(Body(response), 1, Len(Body(response)) - Len(rest)))

\* A complete frame has been decoded and the start of the next one is in the
\* buffer.
C20_Witness == spc = "reading" /\ Len(decoded) = 1 /\ buffer # <<>> /\ rest # <<>>

(***************************************************************************)
(* What the requests of a session carry, under Spec.                       *)
(***************************************************************************)
\* C16: every request built carries the history as it stands, ending with the
\* user message of its turn, and the second request of a session whose first
\* exchange succeeded carries the first prompt, the assistant's answer to it and
\* the second prompt.
C16_RequestCarriesExchange ==
    /\ \A i \in DOMAIN built :
            /\ Len(built[i].snapshot) >= 1
            /\ built[i].snapshot[Len(built[i].snapshot)] = Message("user", submitted[i])
    /\ (pc = "rl_elapsed" /\ Len(built) = 2 /\ turn = "ok")
            => bufs[built[2].ptr] =
                <<Message("user", submitted[1]),
                  Message("assistant", AssistantText(replies[1])),
                  Message("user", submitted[2])>>

\* The media types of the Accept header.
ApplicationJson == "application/json"
EventStream == "text/event-stream"

\* C17: every request sent has the Accept header of its stream flag: the
\* event-stream type when the flag is set, application/json when it is not.
C17_AcceptMatchesStream ==
    \A i \in DOMAIN wire :
        wire[i].accept = IF wire[i].body.stream THEN EventStream ELSE ApplicationJson

\* C18: the request sent ends with the user message of its turn, which is the
\* last message of the history when it is sent; a call that returns an error leaves
\* the history as it is; and the request built after such a call ends with the
\* user message of the failed turn followed directly by the new one.
C18_UserMessageKept ==
    [][/\ Len(wire') > Len(wire)
            => LET m == wire'[Len(wire')].body.messages
                   u == Message("user", submitted[Len(submitted)]) IN
               /\ Len(conversation_history) >= 1
               /\ conversation_history[Len(conversation_history)] = u
               /\ m = conversation_history
       /\ (pc \in {"send", "error_body"} /\ turn' \in SendFailures /\ pc' = "readline")
            => /\ conversation_history' = conversation_history
               /\ conversation_history'[Len(conversation_history')]
                    = Message("user", submitted[Len(submitted)])
       /\ (built' # built /\ turn \in SendFailures)
            => LET m == bufs'[built'[Len(built')].ptr]
                   n == Len(m) IN
               /\ n >= 2
               /\ m[n - 1] = Message("user", submitted[Len(submitted)])
               /\ m[n] = Message("user", submitted'[Len(submitted')])]_vars

\* The request built after a rejected call is being sent: it carries the two
\* prompts, one after the other.
C18_Witness ==
    /\ pc = "send" /\ turn = "api_error" /\ Len(built) = 2
    /\ bufs[request.messages] = <<Message("user", Hello), Message("user", HowAreYou)>>
====
